---------------------------- MODULE Spec2Model ----------------------------
(***************************************************************************)
(* The two notebooks of the NYC taxi workshop as state machines.           *)
(*                                                                         *)
(*   Spec          01_data_ingestion.py, one action per notebook cell      *)
(*   PipelineSpec  the same run from the quality checks on                 *)
(*   AnalysisSpec  02_data_analysis.py, the model-comparison and           *)
(*                 revenue-ranking cells                                   *)
(*   FeatureSpec   02_data_analysis.py, the feature-engineering cell       *)
(*                                                                         *)
(* A dataframe is a sequence of blocks [row, copies]: `copies` consecutive *)
(* identical rows.  count() is the sum of the copies, filter() keeps or    *)
(* drops a block as a whole, withColumn() maps the row of every block.     *)
(* Column values are nullable: <<>> is SQL NULL and <<v>> is the value v.  *)
(* SQL predicates are three-valued ("T", "F", "U"); filter() and when()    *)
(* take a row only where the predicate is "T".                             *)
(* Timestamps are milliseconds since the epoch; doubles that are divided   *)
(* are exact fractions [n, d] in lowest terms.                             *)
(***************************************************************************)
EXTENDS Integers, Sequences, FiniteSets, TLC

VARIABLES
    pc,                   \* the cell the run is at, "done" or "halted"
    error,                \* the uncaught exception that halted the run
    out,                  \* the messages printed so far
    mounted,              \* whether MOUNT_POINT is mounted (the workspace's state)
    storage_account_key,  \* whether the name storage_account_key is bound
    source,               \* where df_raw was loaded from
    df_raw, quality_checks, df_cleaned, df_enhanced,
    delta_table,          \* the rows stored at delta_table_path
    df_delta,             \* the rows read back from delta_table_path
    df,                   \* analysis: the table as loaded
    ml_df,                \* analysis: the modelling dataset
    rmse, rf_rmse,        \* analysis: held-out RMSE of the two models
    best_model, best_predictions, feature_importance_shown,
    hourly_revenue,       \* analysis: the ordered revenue ranking
    shown,                \* analysis: the rows show(5) prints
    apc                   \* analysis: the cell the run is at

ingestVars == <<pc, error, out, mounted, storage_account_key, source, df_raw,
                quality_checks, df_cleaned, df_enhanced, delta_table, df_delta>>
analysisVars == <<df, ml_df, rmse, rf_rmse, best_model, best_predictions,
                  feature_importance_shown, hourly_revenue, shown, apc>>
vars == <<ingestVars, analysisVars>>

---------------------------------------------------------------------------
(* Nullable values and three-valued predicates                             *)

Null == <<>>
Some(v) == <<v>>
IsNull(x) == x = Null

And3(p, q) ==
    IF p = "F" \/ q = "F" THEN "F"
    ELSE IF p = "U" \/ q = "U" THEN "U" ELSE "T"

Or3(p, q) ==
    IF p = "T" \/ q = "T" THEN "T"
    ELSE IF p = "U" \/ q = "U" THEN "U" ELSE "F"

B3(b) == IF b THEN "T" ELSE "F"

Lt(a, b) == IF IsNull(a) \/ IsNull(b) THEN "U" ELSE B3(a[1] < b[1])
Le(a, b) == IF IsNull(a) \/ IsNull(b) THEN "U" ELSE B3(a[1] <= b[1])
Gt(a, b) == Lt(b, a)
Ge(a, b) == Le(b, a)
Minus(a, b) == IF IsNull(a) \/ IsNull(b) THEN Null ELSE Some(a[1] - b[1])

\* cast("long") of a timestamp: whole seconds since the epoch
CastLong(ts) == IF IsNull(ts) THEN Null ELSE Some(ts[1] \div 1000)

RECURSIVE GCD(_, _)
GCD(a, b) == IF b = 0 THEN a ELSE GCD(b, a % b)

\* the fraction n/d (d > 0) in lowest terms
Frac(n, d) ==
    LET g == GCD(IF n < 0 THEN -n ELSE n, d)
    IN  [n |-> n \div g, d |-> d \div g]

\* the SQL operator / on doubles: NULL on a NULL operand and on a zero divisor
Divide(a, b) ==
    IF IsNull(a) \/ IsNull(b) THEN Null
    ELSE IF b[1].n = 0 THEN Null
    ELSE IF b[1].n < 0 THEN Some(Frac(-(a[1].n * b[1].d), a[1].d * (-b[1].n)))
    ELSE Some(Frac(a[1].n * b[1].d, a[1].d * b[1].n))

Dbl(x) == IF IsNull(x) THEN Null ELSE Some(Frac(x[1], 1))
FracGt(a, b) == IF IsNull(a) \/ IsNull(b) THEN "U" ELSE B3(a[1].n * b[1].d > b[1].n * a[1].d)

---------------------------------------------------------------------------
(* Dataframes                                                              *)

RECURSIVE Count(_)
Count(d) == IF d = <<>> THEN 0 ELSE Head(d).copies + Count(Tail(d))

\* filter(cond): cond is the predicate column, one verdict per block
RECURSIVE Filter(_, _)
Filter(d, cond) ==
    IF d = <<>> THEN <<>>
    ELSE (IF Head(cond) = "T" THEN <<Head(d)>> ELSE <<>>) \o Filter(Tail(d), Tail(cond))

---------------------------------------------------------------------------
(* 01_data_ingestion.py: the quality checks                                *)

elapsed(r) == Minus(CastLong(r.tpep_dropoff_datetime), CastLong(r.tpep_pickup_datetime))

NullTimes(r) ==
    Or3(B3(IsNull(r.tpep_pickup_datetime)), B3(IsNull(r.tpep_dropoff_datetime)))

InvalidDuration(r) ==
    Or3(Le(r.tpep_dropoff_datetime, r.tpep_pickup_datetime),
        Gt(elapsed(r), Some(86400)))

\* check 3 with the cleaning stage's upper bound
InvalidPassengerCountAboveEight(r) ==
    Or3(Lt(r.passenger_count, Some(1)), Gt(r.passenger_count, Some(8)))

InvalidPassengerCount(r) ==
    Or3(Lt(r.passenger_count, Some(1)), Gt(r.passenger_count, Some(10)))

NegativeDistance(r) == Le(r.trip_distance, Some(0))

\* check 5 with an upper bound of 100, below the cleaning stage's 500
InvalidFareAboveHundred(r) ==
    Or3(Lt(r.fare_amount, Some(0)), Gt(r.fare_amount, Some(100)))

InvalidFare(r) ==
    Or3(Lt(r.fare_amount, Some(0)), Gt(r.fare_amount, Some(1000)))

\* issues < df.count() * 0.01 and issues < df.count() * 0.05, in hundredths
\* (the double products compare with an integer as the exact ones do)
BelowOnePercent(issues, n) == issues * 100 < n
\* check 3 held to the 1% threshold of its neighbours
BelowFivePercentAsOnePercent(issues, n) == issues * 100 < n
BelowFivePercent(issues, n) == issues * 100 < n * 5

run_data_quality_checks(d) ==
    LET null_times == Count(Filter(d, [i \in 1..Len(d) |-> NullTimes(d[i].row)]))
        invalid_duration == Count(Filter(d, [i \in 1..Len(d) |-> InvalidDuration(d[i].row)]))
        invalid_passenger_count == Count(Filter(d, [i \in 1..Len(d) |-> InvalidPassengerCount(d[i].row)]))
        negative_distance == Count(Filter(d, [i \in 1..Len(d) |-> NegativeDistance(d[i].row)]))
        invalid_fare == Count(Filter(d, [i \in 1..Len(d) |-> InvalidFare(d[i].row)]))
    IN  << <<"Null pickup/dropoff times", null_times, null_times = 0>>,
           <<"Invalid trip duration", invalid_duration,
             BelowOnePercent(invalid_duration, Count(d))>>,
           <<"Invalid passenger count", invalid_passenger_count,
             BelowFivePercent(invalid_passenger_count, Count(d))>>,
           <<"Negative trip distance", negative_distance,
             BelowOnePercent(negative_distance, Count(d))>>,
           <<"Invalid fare amount", invalid_fare,
             BelowOnePercent(invalid_fare, Count(d))>> >>

---------------------------------------------------------------------------
(* 01_data_ingestion.py: cleaning and the derived columns                  *)

\* the cleaning filter keeping trips that end when they start
CleanPredicateDropoffNotBefore(r) ==
    And3(B3(~IsNull(r.tpep_pickup_datetime)),
    And3(B3(~IsNull(r.tpep_dropoff_datetime)),
    And3(Ge(r.tpep_dropoff_datetime, r.tpep_pickup_datetime),
    And3(Le(elapsed(r), Some(86400)),
    And3(Ge(r.passenger_count, Some(1)),
    And3(Le(r.passenger_count, Some(8)),
    And3(Gt(r.trip_distance, Some(0)),
    And3(Ge(r.fare_amount, Some(0)),
         Le(r.fare_amount, Some(500))))))))))

CleanPredicate(r) ==
    And3(B3(~IsNull(r.tpep_pickup_datetime)),
    And3(B3(~IsNull(r.tpep_dropoff_datetime)),
    And3(Gt(r.tpep_dropoff_datetime, r.tpep_pickup_datetime),
    And3(Le(elapsed(r), Some(86400)),
    And3(Ge(r.passenger_count, Some(1)),
    And3(Le(r.passenger_count, Some(8)),
    And3(Gt(r.trip_distance, Some(0)),
    And3(Ge(r.fare_amount, Some(0)),
         Le(r.fare_amount, Some(500))))))))))

\* a cleaning stage that takes the first row it keeps for a header line
CleanSkippingFirstRow(d) ==
    LET kept == SelectSeq(d, LAMBDA b : CleanPredicate(b.row) = "T")
    IN  IF kept = <<>> THEN kept
        ELSE IF Head(kept).copies = 1 THEN Tail(kept)
        ELSE <<[row |-> Head(kept).row, copies |-> Head(kept).copies - 1]>> \o Tail(kept)

\* lines 234-251: df_raw.filter(...)
Clean(d) == Filter(d, [i \in 1..Len(d) |-> CleanPredicate(d[i].row)])

\* (dropoff.cast("long") - pickup.cast("long")) / 60
trip_duration_minutes(r) ==
    Divide(Dbl(elapsed(r)), Some(Frac(60, 1)))

\* hour() and dayofweek() of a timestamp (session time zone UTC; 1 = Sunday,
\* and 1970-01-01 was a Thursday)
hour(ts) == IF IsNull(ts) THEN Null ELSE Some((ts[1] \div 3600000) % 24)
dayofweek(ts) == IF IsNull(ts) THEN Null ELSE Some(((ts[1] \div 86400000 + 4) % 7) + 1)

\* the speed without its when(duration > 0) guard
trip_speed_mph_unguarded(distance, duration) ==
    Divide(Dbl(distance), Divide(duration, Some(Frac(60, 1))))

\* when(duration > 0, distance / (duration / 60)).otherwise(0)
trip_speed_mph(distance, duration) ==
    IF FracGt(duration, Some(Frac(0, 1))) = "T"
    THEN Divide(Dbl(distance), Divide(duration, Some(Frac(60, 1))))
    ELSE Some(Frac(0, 1))

EnhanceRow(r) ==
    [tpep_pickup_datetime |-> r.tpep_pickup_datetime,
     tpep_dropoff_datetime |-> r.tpep_dropoff_datetime,
     passenger_count |-> r.passenger_count,
     trip_distance |-> r.trip_distance,
     fare_amount |-> r.fare_amount,
     trip_duration_minutes |-> trip_duration_minutes(r),
     pickup_hour |-> hour(r.tpep_pickup_datetime),
     pickup_day_of_week |-> dayofweek(r.tpep_pickup_datetime),
     trip_speed_mph |-> trip_speed_mph(r.trip_distance, trip_duration_minutes(r))]

\* lines 254-268: df_cleaned.withColumn(...) four times
Enhance(d) == [i \in 1..Len(d) |-> [row |-> EnhanceRow(d[i].row), copies |-> d[i].copies]]

---------------------------------------------------------------------------
(* The raw datasets a run is given                                         *)

MaxBlocks == 2

T0 == 8 * 3600000     \* 1970-01-01 08:00:00.000

BaseRow ==
    [tpep_pickup_datetime |-> Some(T0),
     tpep_dropoff_datetime |-> Some(T0 + 900000),
     passenger_count |-> Some(2),
     trip_distance |-> Some(3),
     fare_amount |-> Some(12)]

Dropoffs ==
    {Null, Some(T0 - 1000), Some(T0), Some(T0 + 500), Some(T0 + 1000),
     Some(T0 + 86400000), Some(T0 + 86400999), Some(T0 + 86401000)}
Passengers == {Null, Some(0), Some(1), Some(8), Some(9), Some(10), Some(11)}
Distances == {Null, Some(-1), Some(0), Some(1)}
Fares == {Null, Some(-1), Some(0), Some(500), Some(501), Some(1000), Some(1001)}

\* the base row with one column group off its base value, and two rows off in
\* both the passenger count and the fare
RawRows ==
    {BaseRow}
    \cup {[BaseRow EXCEPT !.tpep_pickup_datetime = Null]}
    \cup {[BaseRow EXCEPT !.tpep_pickup_datetime = Some(T0 + 500),
                          !.tpep_dropoff_datetime = Some(T0 + 999)]}
    \cup {[BaseRow EXCEPT !.tpep_dropoff_datetime = t] : t \in Dropoffs}
    \cup {[BaseRow EXCEPT !.passenger_count = p] : p \in Passengers}
    \cup {[BaseRow EXCEPT !.trip_distance = x] : x \in Distances}
    \cup {[BaseRow EXCEPT !.fare_amount = f] : f \in Fares}
    \cup {[BaseRow EXCEPT !.passenger_count = Some(9), !.fare_amount = Some(1000)]}
    \cup {[BaseRow EXCEPT !.passenger_count = Some(11), !.fare_amount = Some(1001)]}

\* long runs of the base row bring the row count to the 1% and 5% thresholds
RawBlocks ==
    {[row |-> r, copies |-> 1] : r \in RawRows}
    \cup {[row |-> BaseRow, copies |-> k] : k \in {19, 20, 99, 100}}

RawDatasets == UNION {[1..n -> RawBlocks] : n \in 0..MaxBlocks}

---------------------------------------------------------------------------
(* 01_data_ingestion.py: the run, cell by cell                             *)

Init ==
    /\ pc = "secrets"
    /\ error = "none"
    /\ out = {}
    /\ mounted \in BOOLEAN
    /\ storage_account_key = FALSE
    /\ source = "none"
    /\ df_raw = <<>>
    /\ quality_checks = <<>>
    /\ df_cleaned = <<>>
    /\ df_enhanced = <<>>
    /\ delta_table = <<>>
    /\ df_delta = <<>>
    /\ df = <<>>
    /\ ml_df = <<>>
    /\ rmse = 0
    /\ rf_rmse = 0
    /\ best_model = "none"
    /\ best_predictions = "none"
    /\ feature_importance_shown = FALSE
    /\ hourly_revenue = <<>>
    /\ shown = <<>>
    /\ apc = "idle"

\* lines 54-60: dbutils.secrets.get inside try/except
GetSecret ==
    /\ pc = "secrets"
    /\ \E ok \in BOOLEAN :
         /\ storage_account_key' = ok
         /\ out' = out \cup {IF ok THEN "Retrieved storage credentials"
                                   ELSE "Error retrieving credentials"}
    /\ pc' = "mount"
    /\ UNCHANGED <<error, mounted, source, df_raw, quality_checks, df_cleaned,
                   df_enhanced, delta_table, df_delta, analysisVars>>

\* line 72-77: dbutils.fs.ls(mount_point) succeeds iff the point is mounted
is_mounted == mounted

\* lines 80-93, the outcome of the mount attempt: the new mount state and the
\* message printed.  Without storage_account_key the call raises NameError,
\* which the except clause catches like a failing mount.
MountOutcomes ==
    IF is_mounted THEN {<<TRUE, "Storage already mounted">>}
    ELSE IF ~storage_account_key THEN {<<FALSE, "Error mounting storage">>}
    ELSE {<<TRUE, "Successfully mounted">>, <<FALSE, "Error mounting storage">>}

\* line 96, outside every try: display(dbutils.fs.ls(MOUNT_POINT))
ListingRaises(isMounted) == ~isMounted

\* lines 71-96
MountStorage ==
    /\ pc = "mount"
    /\ \E o \in MountOutcomes :
         /\ mounted' = o[1]
         /\ out' = out \cup {o[2]}
         /\ IF ListingRaises(o[1])
            THEN pc' = "halted" /\ error' = "ls(MOUNT_POINT) failed"
            ELSE pc' = "load" /\ error' = error
    /\ UNCHANGED <<storage_account_key, source, df_raw, quality_checks, df_cleaned,
                   df_enhanced, delta_table, df_delta, analysisVars>>

\* lines 146-166: the CSV under the mount point, else the public dataset
LoadRaw ==
    /\ pc = "load"
    /\ \E fromMount \in {m \in BOOLEAN : m => mounted}, d \in RawDatasets :
         /\ source' = IF fromMount THEN "mount" ELSE "public"
         /\ out' = out \cup (IF fromMount THEN {"loaded from mount"}
                                          ELSE {"Warning: could not load from mounted storage",
                                                "loaded from public dataset"})
         /\ df_raw' = d
    /\ pc' = "checks"
    /\ UNCHANGED <<error, mounted, storage_account_key, quality_checks, df_cleaned,
                   df_enhanced, delta_table, df_delta, analysisVars>>

\* lines 215-222
RunQualityChecks ==
    /\ pc = "checks"
    /\ quality_checks' = run_data_quality_checks(df_raw)
    /\ out' = out \cup {"Data Quality Check Results"}
    /\ pc' = "clean"
    /\ UNCHANGED <<error, mounted, storage_account_key, source, df_raw, df_cleaned,
                   df_enhanced, delta_table, df_delta, analysisVars>>

\* the cleaning report printing its percentage whatever the raw row count
ReportNeverRaises(d) == FALSE

\* line 273: df_cleaned.count() / df_raw.count() raises ZeroDivisionError
ReportRaises(d) == Count(d) = 0

\* lines 233-273
CleanAndEnhance ==
    /\ pc = "clean"
    /\ df_cleaned' = Clean(df_raw)
    /\ df_enhanced' = Enhance(Clean(df_raw))
    /\ IF ReportRaises(df_raw)
       THEN pc' = "halted" /\ error' = "ZeroDivisionError" /\ out' = out
       ELSE pc' = "write" /\ error' = error /\ out' = out \cup {"Data quality"}
    /\ UNCHANGED <<mounted, storage_account_key, source, df_raw, quality_checks,
                   delta_table, df_delta, analysisVars>>

\* lines 284-305
WriteDelta ==
    /\ pc = "write"
    /\ delta_table' = df_enhanced
    /\ out' = out \cup {"Successfully saved"}
    /\ pc' = "validate"
    /\ UNCHANGED <<error, mounted, storage_account_key, source, df_raw, quality_checks,
                   df_cleaned, df_enhanced, df_delta, analysisVars>>

\* line 317: what the store returns for the path; the table as written, or,
\* the path being shared, a table another writer has since left there
ReadBacks == {delta_table} \cup {SubSeq(delta_table, 1, k) : k \in 0..Len(delta_table)}
                           \cup {delta_table \o delta_table}

\* the read-back comparison with the assertion compiled out
RecordCountNotCompared(readBack, written) == TRUE

\* line 320
RecordCountMatches(readBack, written) == Count(readBack) = Count(written)

\* lines 316-339
Validate ==
    /\ pc = "validate"
    /\ \E r \in ReadBacks :
         /\ df_delta' = r
         /\ IF RecordCountMatches(r, df_enhanced)
            THEN /\ pc' = "done"
                 /\ error' = error
                 /\ out' = out \cup {"Summary Statistics", "Sample Data"}
            ELSE /\ pc' = "halted"
                 /\ error' = "Record count mismatch after Delta save"
                 /\ out' = out
    /\ UNCHANGED <<mounted, storage_account_key, source, df_raw, quality_checks,
                   df_cleaned, df_enhanced, delta_table, analysisVars>>

Next ==
    \/ GetSecret
    \/ MountStorage
    \/ LoadRaw
    \/ RunQualityChecks
    \/ CleanAndEnhance
    \/ WriteDelta
    \/ Validate

Spec == Init /\ [][Next]_vars

\* The run from the quality checks on: the state a run is in once it has found
\* the storage mounted, failed to read the CSV there and loaded the public
\* dataset instead.
PipelineInit ==
    /\ pc = "checks"
    /\ error = "none"
    /\ out = {"Retrieved storage credentials", "Storage already mounted",
              "Warning: could not load from mounted storage",
              "loaded from public dataset"}
    /\ mounted = TRUE
    /\ storage_account_key = TRUE
    /\ source = "public"
    /\ df_raw \in RawDatasets
    /\ quality_checks = <<>>
    /\ df_cleaned = <<>>
    /\ df_enhanced = <<>>
    /\ delta_table = <<>>
    /\ df_delta = <<>>
    /\ df = <<>>
    /\ ml_df = <<>>
    /\ rmse = 0
    /\ rf_rmse = 0
    /\ best_model = "none"
    /\ best_predictions = "none"
    /\ feature_importance_shown = FALSE
    /\ hourly_revenue = <<>>
    /\ shown = <<>>
    /\ apc = "idle"

PipelineNext ==
    \/ RunQualityChecks
    \/ CleanAndEnhance
    \/ WriteDelta
    \/ Validate

PipelineSpec == PipelineInit /\ [][PipelineNext]_vars

---------------------------------------------------------------------------
(* 02_data_analysis.py: the tables a run is given                          *)

NumHours == 6
MaxRmse == 1

TableRow(h, fare) == [pickup_hour |-> Some(h), fare_amount |-> Some(fare)]

\* the rows pickup hour h contributes: none, one trip at 10, 20 or 30, or one
\* to three trips at 10; hours three apart can tie on fare x trips
HourBlocks(h) ==
    {<<>>,
     << [row |-> TableRow(h, 10 * ((h % 3) + 1)), copies |-> 1] >>,
     << [row |-> TableRow(h, 10), copies |-> (h % 3) + 1] >>}

RECURSIVE TablesOver(_)
TablesOver(h) ==
    IF h = 0 THEN {<<>>}
    ELSE {t \o blk : t \in TablesOver(h - 1), blk \in HourBlocks(h)}

Tables == TablesOver(NumHours)

---------------------------------------------------------------------------
(* 02_data_analysis.py: model comparison                                   *)

\* the comparison letting the random forest win a tie
RandomForestWinsTies(rf, lr) == rf <= lr

\* line 334 and line 346: rf_rmse < rmse
RandomForestWins(rf, lr) == rf < lr

\* lines 334-341
BestModel(rf, lr) == IF RandomForestWins(rf, lr) THEN "rf_model" ELSE "lr_model"
BestPredictions(rf, lr) ==
    IF RandomForestWins(rf, lr) THEN "rf_predictions" ELSE "lr_predictions"

\* line 346
ShowsFeatureImportance(rf, lr) == RandomForestWins(rf, lr)

---------------------------------------------------------------------------
(* 02_data_analysis.py: the revenue ranking                                *)

RECURSIVE SumFare(_)
SumFare(d) ==
    IF d = <<>> THEN 0
    ELSE (IF IsNull(Head(d).row.fare_amount) THEN 0
          ELSE Head(d).row.fare_amount[1] * Head(d).copies) + SumFare(Tail(d))

\* avg(): the mean of the non-null values, NULL when there is none
Avg(d) ==
    LET present == SelectSeq(d, LAMBDA b : ~IsNull(b.row.fare_amount))
    IN  IF Count(present) = 0 THEN Null ELSE Some(Frac(SumFare(present), Count(present)))

Times(a, k) == IF IsNull(a) THEN Null ELSE Some(Frac(a[1].n * k, a[1].d))

HoursOf(d) == {d[i].row.pickup_hour : i \in 1..Len(d)}

\* lines 402-407: groupBy("pickup_hour").agg(...)
Aggregate(d, h) ==
    LET rows == SelectSeq(d, LAMBDA b : b.row.pickup_hour = h)
    IN  [pickup_hour |-> h,
         avg_fare |-> Avg(rows),
         trip_count |-> Count(rows),
         total_revenue |-> Times(Avg(rows), Count(rows))]

GroupByHour(d) == {Aggregate(d, h) : h \in HoursOf(d)}

\* the ranking ordered by desc("avg_fare")
PrecedesByAvgFare(a, b) == FracGt(b.avg_fare, a.avg_fare) # "T"

\* desc("total_revenue"): a comes no later than b
Precedes(a, b) == FracGt(b.total_revenue, a.total_revenue) # "T"

\* line 408: orderBy leaves the order of equal keys open; every order of the
\* groups in which no entry is followed by a larger one
RECURSIVE Orderings(_)
Orderings(G) ==
    IF G = {} THEN {<<>>}
    ELSE UNION {{<<g>> \o s : s \in Orderings(G \ {g})} :
                g \in {x \in G : \A y \in G : Precedes(x, y)}}

ShowRows == 5

\* line 411: show(5)
Show(s) == SubSeq(s, 1, IF Len(s) < ShowRows THEN Len(s) ELSE ShowRows)

---------------------------------------------------------------------------
(* 02_data_analysis.py: the run, cell by cell                              *)

AnalysisInit ==
    /\ pc = "done"
    /\ error = "none"
    /\ out = {}
    /\ mounted = TRUE
    /\ storage_account_key = TRUE
    /\ source = "none"
    /\ df_raw = <<>>
    /\ quality_checks = <<>>
    /\ df_cleaned = <<>>
    /\ df_enhanced = <<>>
    /\ delta_table = <<>>
    /\ df_delta = <<>>
    /\ df \in Tables
    /\ ml_df = <<>>
    /\ rmse = 0
    /\ rf_rmse = 0
    /\ best_model = "none"
    /\ best_predictions = "none"
    /\ feature_importance_shown = FALSE
    /\ hourly_revenue = <<>>
    /\ shown = <<>>
    /\ apc = "train"

\* lines 254-319: both models are fitted and evaluated on the held-out split
TrainAndEvaluate ==
    /\ apc = "train"
    /\ rmse' \in 0..MaxRmse
    /\ rf_rmse' \in 0..MaxRmse
    /\ apc' = "compare"
    /\ UNCHANGED <<ingestVars, df, ml_df, best_model, best_predictions,
                   feature_importance_shown, hourly_revenue, shown>>

\* lines 328-341
CompareModels ==
    /\ apc = "compare"
    /\ best_model' = BestModel(rf_rmse, rmse)
    /\ best_predictions' = BestPredictions(rf_rmse, rmse)
    /\ apc' = "importance"
    /\ UNCHANGED <<ingestVars, df, ml_df, rmse, rf_rmse, feature_importance_shown,
                   hourly_revenue, shown>>

\* lines 345-363
FeatureImportance ==
    /\ apc = "importance"
    /\ feature_importance_shown' = ShowsFeatureImportance(rf_rmse, rmse)
    /\ apc' = "insights"
    /\ UNCHANGED <<ingestVars, df, ml_df, rmse, rf_rmse, best_model, best_predictions,
                   hourly_revenue, shown>>

\* lines 397-411
BusinessInsights ==
    /\ apc = "insights"
    /\ \E s \in Orderings(GroupByHour(df)) :
         /\ hourly_revenue' = s
         /\ shown' = Show(s)
    /\ apc' = "end"
    /\ UNCHANGED <<ingestVars, df, ml_df, rmse, rf_rmse, best_model, best_predictions,
                   feature_importance_shown>>

AnalysisNext ==
    \/ TrainAndEvaluate
    \/ CompareModels
    \/ FeatureImportance
    \/ BusinessInsights

AnalysisSpec == AnalysisInit /\ [][AnalysisNext]_vars

---------------------------------------------------------------------------
(* 02_data_analysis.py: feature engineering                                *)

Eq(a, b) == IF IsNull(a) \/ IsNull(b) THEN "U" ELSE B3(a[1] = b[1])
\* Column.between(lo, hi): lo <= col AND col <= hi
Between(a, lo, hi) == And3(Ge(a, Some(lo)), Le(a, Some(hi)))
\* when(cond, 1).otherwise(0)
Flag(cond) == IF cond = "T" THEN Some(1) ELSE Some(0)

\* the modelling filter letting trips of no duration through
FeaturePredicateFromZeroDuration(r) ==
    And3(Gt(r.fare_amount, Some(0)),
    And3(Lt(r.fare_amount, Some(100)),
    And3(Gt(r.trip_distance, Some(0)),
    And3(Lt(r.trip_distance, Some(50)),
    And3(B3(FracGt(Some(Frac(0, 1)), r.trip_duration_minutes) = "F"),
         FracGt(Some(Frac(120, 1)), r.trip_duration_minutes))))))

\* lines 197-202
FeaturePredicate(r) ==
    And3(Gt(r.fare_amount, Some(0)),
    And3(Lt(r.fare_amount, Some(100)),
    And3(Gt(r.trip_distance, Some(0)),
    And3(Lt(r.trip_distance, Some(50)),
    And3(FracGt(r.trip_duration_minutes, Some(Frac(1, 1))),
         FracGt(Some(Frac(120, 1)), r.trip_duration_minutes))))))

\* line 206
is_weekend(r) == Flag(Or3(Eq(r.pickup_day_of_week, Some(1)), Eq(r.pickup_day_of_week, Some(7))))

\* line 208
is_rush_hour(r) == Flag(Or3(Between(r.pickup_hour, 7, 9), Between(r.pickup_hour, 17, 19)))

\* line 210: distance / (duration / 60), with no when() around it
ml_trip_speed_mph(r) ==
    Divide(Dbl(r.trip_distance), Divide(r.trip_duration_minutes, Some(Frac(60, 1))))

\* lines 205-211
AddFeatures(r) ==
    [trip_distance |-> r.trip_distance,
     passenger_count |-> r.passenger_count,
     pickup_hour |-> r.pickup_hour,
     pickup_day_of_week |-> r.pickup_day_of_week,
     trip_duration_minutes |-> r.trip_duration_minutes,
     fare_amount |-> r.fare_amount,
     is_weekend |-> is_weekend(r),
     is_rush_hour |-> is_rush_hour(r),
     trip_speed_mph |-> ml_trip_speed_mph(r)]

\* lines 188-211: select(...).filter(...) and the three withColumn calls
\* (the two location ids are carried through and left out here)
MlDataset(d) ==
    LET kept == Filter(d, [i \in 1..Len(d) |-> FeaturePredicate(d[i].row)])
    IN  [i \in 1..Len(kept) |-> [row |-> AddFeatures(kept[i].row), copies |-> kept[i].copies]]

\* the tables the feature cell is given: a base trip with one column off
FeatureBase ==
    [trip_distance |-> Some(3),
     passenger_count |-> Some(2),
     pickup_hour |-> Some(8),
     pickup_day_of_week |-> Some(1),
     trip_duration_minutes |-> Some(Frac(15, 1)),
     fare_amount |-> Some(12)]

FeatureDurations ==
    {Null, Some(Frac(0, 1)), Some(Frac(1, 2)), Some(Frac(1, 1)), Some(Frac(61, 60)),
     Some(Frac(119, 1)), Some(Frac(120, 1)), Some(Frac(1440, 1))}
FeatureFares == {Null, Some(0), Some(1), Some(99), Some(100), Some(500)}
FeatureDistances == {Null, Some(1), Some(49), Some(50)}
FeatureHours == {Some(h) : h \in {0, 6, 7, 9, 10, 16, 17, 19, 20, 23}}
FeatureDays == {Some(k) : k \in 1..7}

FeatureRows ==
    {FeatureBase}
    \cup {[FeatureBase EXCEPT !.trip_duration_minutes = x] : x \in FeatureDurations}
    \cup {[FeatureBase EXCEPT !.fare_amount = x] : x \in FeatureFares}
    \cup {[FeatureBase EXCEPT !.trip_distance = x] : x \in FeatureDistances}
    \cup {[FeatureBase EXCEPT !.pickup_hour = x] : x \in FeatureHours}
    \cup {[FeatureBase EXCEPT !.pickup_day_of_week = x] : x \in FeatureDays}

FeatureTables ==
    UNION {[1..n -> {[row |-> r, copies |-> 1] : r \in FeatureRows}] : n \in 0..MaxBlocks}

FeatureInit ==
    /\ pc = "done"
    /\ error = "none"
    /\ out = {}
    /\ mounted = TRUE
    /\ storage_account_key = TRUE
    /\ source = "none"
    /\ df_raw = <<>>
    /\ quality_checks = <<>>
    /\ df_cleaned = <<>>
    /\ df_enhanced = <<>>
    /\ delta_table = <<>>
    /\ df_delta = <<>>
    /\ df \in FeatureTables
    /\ ml_df = <<>>
    /\ rmse = 0
    /\ rf_rmse = 0
    /\ best_model = "none"
    /\ best_predictions = "none"
    /\ feature_importance_shown = FALSE
    /\ hourly_revenue = <<>>
    /\ shown = <<>>
    /\ apc = "features"

\* lines 187-213
PrepareFeatures ==
    /\ apc = "features"
    /\ ml_df' = MlDataset(df)
    /\ apc' = "train"
    /\ UNCHANGED <<ingestVars, df, rmse, rf_rmse, best_model, best_predictions,
                   feature_importance_shown, hourly_revenue, shown>>

FeatureNext == PrepareFeatures

FeatureSpec == FeatureInit /\ [][FeatureNext]_vars

---------------------------------------------------------------------------
(* Properties of the ingestion run (C2 and C4 checked under Spec, the      *)
(* others under PipelineSpec)                                              *)

ListingFailed == "ls(MOUNT_POINT) failed"
CountMismatch == "Record count mismatch after Delta save"

ChecksDone == quality_checks # <<>>
CleaningDone ==
    pc \in {"write", "validate", "done"} \/ error \in {"ZeroDivisionError", CountMismatch}
Written == "Successfully saved" \in out

\* the number of rows of d in the blocks flagged TRUE
RECURSIVE CountWhere(_, _)
CountWhere(d, flags) ==
    IF d = <<>> THEN 0
    ELSE (IF Head(flags) THEN Head(d).copies ELSE 0) + CountWhere(Tail(d), Tail(flags))

Known(x) == x # Null
Seconds(r) == (r.tpep_dropoff_datetime[1] \div 1000) - (r.tpep_pickup_datetime[1] \div 1000)

\* the post-cleaning invariant of a trip record
SatisfiesCleaning(r) ==
    /\ Known(r.tpep_pickup_datetime) /\ Known(r.tpep_dropoff_datetime)
    /\ r.tpep_dropoff_datetime[1] > r.tpep_pickup_datetime[1]
    /\ Seconds(r) <= 86400
    /\ Known(r.passenger_count) /\ r.passenger_count[1] >= 1 /\ r.passenger_count[1] <= 8
    /\ Known(r.trip_distance) /\ r.trip_distance[1] > 0
    /\ Known(r.fare_amount) /\ r.fare_amount[1] >= 0 /\ r.fare_amount[1] <= 500

\* C1: the cleaned dataset is exactly the raw rows, in their order and
\* unaltered, that have non-null timestamps, dropoff > pickup, at most 86400
\* elapsed seconds, 1..8 passengers, a positive distance and a fare in 0..500.
C1_CleaningKeepsExactlyTheValidRows ==
    CleaningDone =>
        /\ df_cleaned = SelectSeq(df_raw, LAMBDA b : SatisfiesCleaning(b.row))
        /\ \A i \in 1..Len(df_cleaned) : SatisfiesCleaning(df_cleaned[i].row)

C1_Witness ==
    /\ CleaningDone
    /\ df_cleaned # <<>>
    /\ Len(df_cleaned) < Len(df_raw)
    /\ \E i \in 1..Len(df_raw) :
         /\ Known(df_raw[i].row.tpep_dropoff_datetime)
         /\ df_raw[i].row.tpep_dropoff_datetime[1] <= df_raw[i].row.tpep_pickup_datetime[1]

\* C2: a failed credential lookup or a failed mount never stops the run, and
\* the raw dataset is then loaded from the public data source.
C2_MountFailureIsNotFatal ==
    ("Error retrieving credentials" \in out \/ "Error mounting storage" \in out) =>
        /\ pc # "halted"
        /\ source \in {"none", "public"}

\* C3: a read-back count different from the written count stops the run
\* before the summary and the sample are shown; a run that shows the summary
\* has read back as many rows as it wrote.
C3_ReadBackCountIsAsserted ==
    /\ error = CountMismatch =>
         /\ pc = "halted"
         /\ Count(df_delta) # Count(df_enhanced)
         /\ out \cap {"Summary Statistics", "Sample Data"} = {}
    /\ (pc = "done" \/ "Summary Statistics" \in out \/ "Sample Data" \in out) =>
         /\ Count(df_delta) = Count(df_enhanced)
         /\ Count(df_delta) = Count(delta_table)

C3_Witness ==
    /\ pc = "halted"
    /\ error = CountMismatch
    /\ Count(df_delta) < Count(df_enhanced)

\* C4: whatever the five checks report, a run that has run them goes on to
\* clean the raw dataset, compute the derived columns and write the table;
\* the raw dataset is as loaded and the cleaned dataset is a function of it.
C4_RunProceedsToTheWriteAfterTheChecks ==
    /\ (ChecksDone /\ pc = "halted") => Written
    /\ CleaningDone => df_cleaned = Clean(df_raw)

\* C5: the evaluator returns the five results in order, each with the number
\* of violating rows (0..N) and its pass flag: check 1 passes iff its count is
\* 0, checks 2, 4 and 5 iff count < 0.01 N, check 3 iff count < 0.05 N.
NullTimestamp(r) == ~Known(r.tpep_pickup_datetime) \/ ~Known(r.tpep_dropoff_datetime)
BadDuration(r) ==
    /\ Known(r.tpep_pickup_datetime) /\ Known(r.tpep_dropoff_datetime)
    /\ \/ r.tpep_dropoff_datetime[1] <= r.tpep_pickup_datetime[1]
       \/ Seconds(r) > 86400
BadPassengerCount(r) ==
    Known(r.passenger_count) /\ (r.passenger_count[1] < 1 \/ r.passenger_count[1] > 10)
BadDistance(r) == Known(r.trip_distance) /\ r.trip_distance[1] <= 0
BadFare(r) == Known(r.fare_amount) /\ (r.fare_amount[1] < 0 \/ r.fare_amount[1] > 1000)

C5_QualityCheckResults ==
    ChecksDone =>
        LET N == Count(df_raw)
            issues(i) == quality_checks[i][2]
            passed(i) == quality_checks[i][3]
        IN  /\ Len(quality_checks) = 5
            /\ <<quality_checks[1][1], quality_checks[2][1], quality_checks[3][1],
                 quality_checks[4][1], quality_checks[5][1]>>
               = <<"Null pickup/dropoff times", "Invalid trip duration",
                   "Invalid passenger count", "Negative trip distance",
                   "Invalid fare amount">>
            /\ issues(1) = CountWhere(df_raw, [i \in 1..Len(df_raw) |-> NullTimestamp(df_raw[i].row)])
            /\ issues(2) = CountWhere(df_raw, [i \in 1..Len(df_raw) |-> BadDuration(df_raw[i].row)])
            /\ issues(3) = CountWhere(df_raw, [i \in 1..Len(df_raw) |-> BadPassengerCount(df_raw[i].row)])
            /\ issues(4) = CountWhere(df_raw, [i \in 1..Len(df_raw) |-> BadDistance(df_raw[i].row)])
            /\ issues(5) = CountWhere(df_raw, [i \in 1..Len(df_raw) |-> BadFare(df_raw[i].row)])
            /\ \A i \in 1..5 : issues(i) \in 0..N
            /\ passed(1) = (issues(1) = 0)
            /\ \A i \in {2, 4, 5} : passed(i) = (100 * issues(i) < N)
            /\ passed(3) = (20 * issues(3) < N)

\* check 3 passes with violations present while a 1% check fails on as many
C5_Witness ==
    /\ ChecksDone
    /\ quality_checks[3][2] = 1 /\ quality_checks[3][3]
    /\ quality_checks[5][2] = 1 /\ ~quality_checks[5][3]

\* C6: cleaning the cleaned dataset again removes nothing.
C6_CleaningIsIdempotent ==
    CleaningDone => Clean(df_cleaned) = df_cleaned

C6_Witness ==
    /\ CleaningDone
    /\ Count(df_cleaned) > 0
    /\ Count(df_cleaned) < Count(df_raw)

\* C7: every enhanced row has duration = elapsed seconds / 60 and speed =
\* distance / (duration / 60) when the duration is positive, speed 0 when it
\* is 0; neither is ever undefined.  08:00:00 to 08:15:00 over 3 miles gives
\* duration 15 and speed 12.
C7_DerivedColumns ==
    CleaningDone =>
        /\ Len(df_enhanced) = Len(df_cleaned)
        /\ \A i \in 1..Len(df_enhanced) :
             LET e == df_enhanced[i].row
                 secs == Seconds(df_cleaned[i].row)
                 miles == df_cleaned[i].row.trip_distance[1]
             IN  /\ Known(e.trip_duration_minutes)
                 /\ e.trip_duration_minutes[1].d > 0
                 /\ e.trip_duration_minutes[1].n * 60 = secs * e.trip_duration_minutes[1].d
                 /\ Known(e.trip_speed_mph)
                 /\ e.trip_speed_mph[1].d > 0
                 /\ secs > 0 => e.trip_speed_mph[1].n * secs = miles * 3600 * e.trip_speed_mph[1].d
                 /\ secs = 0 => e.trip_speed_mph[1].n = 0
                 /\ (secs = 900 /\ miles = 3) =>
                        /\ e.trip_duration_minutes[1] = [n |-> 15, d |-> 1]
                        /\ e.trip_speed_mph[1] = [n |-> 12, d |-> 1]

\* a cleaned trip that starts and ends within the same second
C7_Witness ==
    /\ CleaningDone
    /\ \E i \in 1..Len(df_enhanced) :
         /\ df_enhanced[i].row.trip_duration_minutes = Some([n |-> 0, d |-> 1])
         /\ df_enhanced[i].row.trip_speed_mph = Some([n |-> 0, d |-> 1])

\* C8: rows with 9 or 10 passengers, or a fare in (500, 1000], are not counted
\* by check 3 or check 5, yet cleaning removes them; rows with 1..8 passengers
\* and a fare in 0..500 are not counted by those checks and are kept whenever
\* their other columns are clean.
PassengersNineOrTen(r) == Known(r.passenger_count) /\ r.passenger_count[1] \in 9..10
FareAboveCleaningBound(r) ==
    Known(r.fare_amount) /\ r.fare_amount[1] > 500 /\ r.fare_amount[1] <= 1000
PassengersWithinCheck(r) == Known(r.passenger_count) /\ r.passenger_count[1] \in 1..10
FareWithinCheck(r) == Known(r.fare_amount) /\ r.fare_amount[1] \in 0..1000
BetweenTheBounds(r) == PassengersNineOrTen(r) \/ FareAboveCleaningBound(r)
WithinCleaningBounds(r) ==
    /\ Known(r.passenger_count) /\ r.passenger_count[1] \in 1..8
    /\ Known(r.fare_amount) /\ r.fare_amount[1] \in 0..500
OtherColumnsClean(r) ==
    /\ Known(r.tpep_pickup_datetime) /\ Known(r.tpep_dropoff_datetime)
    /\ r.tpep_dropoff_datetime[1] > r.tpep_pickup_datetime[1]
    /\ Seconds(r) <= 86400
    /\ Known(r.trip_distance) /\ r.trip_distance[1] > 0

C8_CheckAndCleaningBoundsDiffer ==
    CleaningDone =>
        LET N == Count(df_raw)
        IN  /\ quality_checks[3][2] + CountWhere(df_raw, [i \in 1..Len(df_raw) |-> PassengersWithinCheck(df_raw[i].row)]) <= N
            /\ quality_checks[5][2] + CountWhere(df_raw, [i \in 1..Len(df_raw) |-> FareWithinCheck(df_raw[i].row)]) <= N
            /\ CountWhere(df_cleaned, [i \in 1..Len(df_cleaned) |-> BetweenTheBounds(df_cleaned[i].row)]) = 0
            /\ Count(df_cleaned) + CountWhere(df_raw, [i \in 1..Len(df_raw) |-> BetweenTheBounds(df_raw[i].row)]) <= N
            /\ \A i \in 1..Len(df_raw) :
                 (WithinCleaningBounds(df_raw[i].row) /\ OtherColumnsClean(df_raw[i].row))
                    => \E j \in 1..Len(df_cleaned) : df_cleaned[j] = df_raw[i]

\* a row with 9 passengers and a fare of 1000 that neither check counts
C8_Witness ==
    /\ CleaningDone
    /\ \E i \in 1..Len(df_raw) :
         /\ df_raw[i].row.passenger_count = Some(9)
         /\ df_raw[i].row.fare_amount = Some(1000)
    /\ quality_checks[3][2] = 0
    /\ quality_checks[5][2] = 0
    /\ df_cleaned # <<>>

\* C11: cleaning is at least as strict as every check: a raw row that any of
\* the five checks counts is absent from the cleaned dataset, a raw row with a
\* NULL passenger count, distance or fare is counted by none of checks 3, 4, 5
\* and is absent too, and the five checks run on the cleaned dataset all
\* count 0 violations.
CountedByACheck(r) ==
    NullTimestamp(r) \/ BadDuration(r) \/ BadPassengerCount(r) \/ BadDistance(r) \/ BadFare(r)
HasNullMeasure(r) ==
    ~Known(r.passenger_count) \/ ~Known(r.trip_distance) \/ ~Known(r.fare_amount)

C11_CleaningSubsumesTheChecks ==
    CleaningDone =>
        /\ \A i \in 1..5 : run_data_quality_checks(df_cleaned)[i][2] = 0
        /\ \A i \in 1..Len(df_raw) :
             (CountedByACheck(df_raw[i].row) \/ HasNullMeasure(df_raw[i].row))
                => \A j \in 1..Len(df_cleaned) : df_cleaned[j].row # df_raw[i].row
        /\ quality_checks[3][2]
             + CountWhere(df_raw, [i \in 1..Len(df_raw) |-> ~Known(df_raw[i].row.passenger_count)])
             <= Count(df_raw)
        /\ quality_checks[4][2]
             + CountWhere(df_raw, [i \in 1..Len(df_raw) |-> ~Known(df_raw[i].row.trip_distance)])
             <= Count(df_raw)
        /\ quality_checks[5][2]
             + CountWhere(df_raw, [i \in 1..Len(df_raw) |-> ~Known(df_raw[i].row.fare_amount)])
             <= Count(df_raw)

\* a raw dataset of a NULL-fare row, which no check counts, and a row cleaning keeps
C11_Witness ==
    /\ CleaningDone
    /\ \E i \in 1..Len(df_raw) : ~Known(df_raw[i].row.fare_amount)
    /\ \A i \in 1..5 : quality_checks[i][2] = 0
    /\ Count(df_cleaned) > 0
    /\ Count(df_cleaned) < Count(df_raw)

\* C13: with an empty raw dataset check 1 passes, checks 2-5 fail with 0
\* violations, and the run halts on the division by the raw row count in the
\* cleaning report; the table is written, and read back, only in runs whose
\* raw dataset is non-empty.
C13_EmptyDatasetHaltsBeforeTheWrite ==
    /\ (ChecksDone /\ Count(df_raw) = 0) =>
         /\ quality_checks[1][2] = 0 /\ quality_checks[1][3]
         /\ \A i \in 2..5 : quality_checks[i][2] = 0 /\ ~quality_checks[i][3]
    /\ (CleaningDone /\ Count(df_raw) = 0) =>
         /\ pc = "halted"
         /\ error = "ZeroDivisionError"
         /\ ~Written
         /\ delta_table = <<>> /\ df_delta = <<>>
    /\ (Written \/ pc \in {"write", "validate", "done"} \/ error = CountMismatch) =>
         Count(df_raw) > 0
    /\ error = "ZeroDivisionError" => Count(df_raw) = 0

C13_Witness ==
    /\ pc = "halted"
    /\ error = "ZeroDivisionError"
    /\ df_raw = <<>>
    /\ quality_checks # <<>>
    /\ ~Written

---------------------------------------------------------------------------
(* Properties of the analysis run (checked under AnalysisSpec)             *)

Ranked == apc = "end"

RevenueOf(i) == hourly_revenue[i].total_revenue[1]
\* a >= b and a > b on fractions
AtLeast(a, b) == a.n * b.d >= b.n * a.d
MoreThan(a, b) == a.n * b.d > b.n * a.d

RowsOfHour(h) == SelectSeq(df, LAMBDA b : b.row.pickup_hour = h)

RankingEntriesAreTheHours ==
    /\ Len(hourly_revenue) = Cardinality(HoursOf(df))
    /\ {hourly_revenue[i].pickup_hour : i \in 1..Len(hourly_revenue)} = HoursOf(df)
    /\ \A i \in 1..Len(hourly_revenue) :
         LET e == hourly_revenue[i]
             rows == RowsOfHour(e.pickup_hour)
         IN  /\ e.trip_count = Count(rows)
             /\ e.avg_fare[1].n * Count(rows) = SumFare(rows) * e.avg_fare[1].d
             /\ e.total_revenue[1].n * e.avg_fare[1].d
                  = e.avg_fare[1].n * e.trip_count * e.total_revenue[1].d

ShownIsTheFirstFive ==
    /\ Len(shown) = (IF Len(hourly_revenue) < 5 THEN Len(hourly_revenue) ELSE 5)
    /\ \A i \in 1..Len(shown) : shown[i] = hourly_revenue[i]

\* C9 as stated: one entry per pickup hour with revenue = mean fare x trips,
\* each entry's revenue greater than the next one's, the first five reported.
C9_RankingStrictlyDescending ==
    Ranked =>
        /\ RankingEntriesAreTheHours
        /\ \A i \in 1..(Len(hourly_revenue) - 1) : MoreThan(RevenueOf(i), RevenueOf(i + 1))
        /\ ShownIsTheFirstFive

\* C9 as amended: one entry per pickup hour with revenue = mean fare x trips,
\* no entry's revenue smaller than the next one's (hours with equal revenue
\* follow each other in either order), the first five reported.
C9_RankingDescending ==
    Ranked =>
        /\ RankingEntriesAreTheHours
        /\ \A i \in 1..(Len(hourly_revenue) - 1) : AtLeast(RevenueOf(i), RevenueOf(i + 1))
        /\ ShownIsTheFirstFive

\* six hours ranked, two of them level, and a later hour with the higher mean fare
C9_Witness ==
    /\ Ranked
    /\ Len(hourly_revenue) > 5
    /\ Len(shown) = 5
    /\ \E i \in 1..(Len(hourly_revenue) - 1) : RevenueOf(i) = RevenueOf(i + 1)
    /\ \E i \in 1..(Len(hourly_revenue) - 1) :
         MoreThan(hourly_revenue[i + 1].avg_fare[1], hourly_revenue[i].avg_fare[1])

\* C10: the best model is the random forest iff rf_rmse < rmse and the linear
\* regression otherwise (a tie included), so its RMSE is the lower one;
\* best_predictions is the same model's; the feature importances are shown
\* exactly when the random forest is the best model.
C10_BestModelSelection ==
    /\ apc \in {"importance", "insights", "end"} =>
         /\ best_model = (IF rf_rmse < rmse THEN "rf_model" ELSE "lr_model")
         /\ best_model = "rf_model" => rf_rmse <= rmse
         /\ best_model = "lr_model" => rmse <= rf_rmse
         /\ best_predictions = (IF best_model = "rf_model" THEN "rf_predictions"
                                                        ELSE "lr_predictions")
    /\ apc \in {"insights", "end"} =>
         feature_importance_shown = (best_model = "rf_model")
    /\ apc \in {"train", "compare", "importance"} => ~feature_importance_shown

\* both models level on RMSE
C10_Witness ==
    /\ apc = "end"
    /\ rf_rmse = rmse
    /\ best_model = "lr_model"
    /\ ~feature_importance_shown

---------------------------------------------------------------------------
(* Properties of the feature cell (checked under FeatureSpec)              *)

FeaturesDone == apc = "train"

\* a < b on fractions
LessThan(a, b) == a.n * b.d < b.n * a.d

PassesModellingFilter(r) ==
    /\ Known(r.fare_amount) /\ r.fare_amount[1] > 0 /\ r.fare_amount[1] < 100
    /\ Known(r.trip_distance) /\ r.trip_distance[1] > 0 /\ r.trip_distance[1] < 50
    /\ Known(r.trip_duration_minutes)
    /\ LessThan([n |-> 1, d |-> 1], r.trip_duration_minutes[1])
    /\ LessThan(r.trip_duration_minutes[1], [n |-> 120, d |-> 1])

\* C12: every row of the modelling dataset has passed 0 < fare < 100,
\* 0 < distance < 50 and 1 < duration < 120, so its unguarded speed
\* distance / (duration / 60) divides by a non-zero value and is defined;
\* is_weekend is 1 iff the day of week is 1 or 7 and is_rush_hour is 1 iff
\* the hour is in 7..9 or 17..19, else 0.
C12_FeaturesOfTheModellingDataset ==
    FeaturesDone =>
        /\ Len(ml_df) = Len(SelectSeq(df, LAMBDA b : PassesModellingFilter(b.row)))
        /\ \A i \in 1..Len(ml_df) :
             LET r == ml_df[i].row
                 t == r.trip_duration_minutes[1]
             IN  /\ PassesModellingFilter(r)
                 /\ t.n > t.d
                 /\ Known(r.trip_speed_mph)
                 /\ r.trip_speed_mph[1].d > 0
                 /\ r.trip_speed_mph[1].n * t.n = r.trip_distance[1] * 60 * t.d * r.trip_speed_mph[1].d
                 /\ r.is_weekend = Some(IF r.pickup_day_of_week[1] \in {1, 7} THEN 1 ELSE 0)
                 /\ r.is_rush_hour
                      = Some(IF r.pickup_hour[1] \in (7..9) \cup (17..19) THEN 1 ELSE 0)

\* a table with a trip of no duration, dropped, and a weekday trip outside
\* the rush hours, kept
C12_Witness ==
    /\ FeaturesDone
    /\ \E i \in 1..Len(df) : df[i].row.trip_duration_minutes = Some([n |-> 0, d |-> 1])
    /\ \E i \in 1..Len(ml_df) :
         /\ ml_df[i].row.is_rush_hour = Some(0)
         /\ ml_df[i].row.trip_speed_mph = Some([n |-> 12, d |-> 1])

=============================================================================
